---- MODULE Spec2Model ----
(***************************************************************************)
(* Model of the trainer data dashboard (src/app.py).                       *)
(*                                                                         *)
(* Four specifications over one set of variables:                          *)
(*   SpecScore - the pure scoring engine: calculate_score and the          *)
(*               shortfall priority ranking of main(), applied to count    *)
(*               maps drawn from a bounded set;                            *)
(*   Spec      - the row store gateway over all categories: the cached     *)
(*               connection, the nine tables and the operations            *)
(*               get_current_data, add_data (with the save handler of      *)
(*               main), update_data, delete_data;                          *)
(*   SpecEdit  - the edit form of the manage tab on a store without        *)
(*               faults, over all categories;                              *)
(*   SpecCache - the gateway with get_category_data and its 60 s read      *)
(*               cache, over three of the categories.                      *)
(*                                                                         *)
(* Category keys: the source uses Korean display names as dictionary keys; *)
(* the model uses ASCII aliases in the same declaration order:             *)
(*   QnA, guideline_workout (운동 가이드라인), guideline_diet (식단 가이드라인), *)
(*   philosophy (철학/마인드셋), injury (부상 관리), feedback (피드백),          *)
(*   meal_ex (식단 예시), workout_ex (운동 예시), tone (톤/말투).               *)
(*                                                                         *)
(* Numbers: the source computes scores in binary floating point.  The      *)
(* model computes them exactly, as integers in units of 1/ScoreUnit of a   *)
(* point (every target divides AchievementUnit, so no division rounds).    *)
(***************************************************************************)
EXTENDS Integers, Sequences, FiniteSets, TLC

VARIABLES
    current_data,   \* count map handed to calculate_score (main, line 437)
    total_score,    \* calculate_score's total_score, in 1/ScoreUnit points
    tier,           \* calculate_score's tier
    details,        \* calculate_score's details: achievement and score per category
    needed_data,    \* main's sorted shortfall ranking (sequence of categories)
    pc,             \* "input": counts chosen, "scored": the render has run
    db,             \* the row store: table -> committed rows
    next_id,        \* per table, the id its next inserted row gets
    conn,           \* the connection cached by st.cache_resource
    cache,          \* st.cache_data: the cached get_category_data results
    last            \* the most recent call: its arguments and what it returned

score_vars == <<current_data, total_score, tier, details, needed_data, pc>>

store_vars == <<db, next_id, conn, cache, last>>

vars == <<current_data, total_score, tier, details, needed_data, pc,
          db, next_id, conn, cache, last>>

\* ------------------------------------------------------------------------
\* Category registry and the fixed tables of calculate_score
\* ------------------------------------------------------------------------

\* Declaration order of the category dictionaries (dict insertion order).
CategoryOrder ==
    << "QnA", "guideline_workout", "guideline_diet", "philosophy", "injury",
       "feedback", "meal_ex", "workout_ex", "tone" >>

Categories == { CategoryOrder[i] : i \in 1..Len(CategoryOrder) }

IndexOf(c) == CHOOSE i \in 1..Len(CategoryOrder) : CategoryOrder[i] = c

\* target (Gold standard) of calculate_score
target ==
    [ QnA |-> 60, guideline_workout |-> 30, guideline_diet |-> 20,
      philosophy |-> 15, injury |-> 12, feedback |-> 10, meal_ex |-> 15,
      workout_ex |-> 20, tone |-> 8 ]

\* Mutant of weights: the last weight is 0.09, so the weights sum to 0.99.
weightsShort ==
    [ QnA |-> 23, guideline_workout |-> 18, guideline_diet |-> 13,
      philosophy |-> 9, injury |-> 9, feedback |-> 4, meal_ex |-> 4,
      workout_ex |-> 10, tone |-> 9 ]

\* weights of calculate_score, in hundredths (0.23 is 23)
weights ==
    [ QnA |-> 23, guideline_workout |-> 18, guideline_diet |-> 13,
      philosophy |-> 9, injury |-> 9, feedback |-> 4, meal_ex |-> 4,
      workout_ex |-> 10, tone |-> 10 ]

\* weights_dict of main (the ranking's own copy of the weights), hundredths
weights_dict ==
    [ QnA |-> 23, guideline_workout |-> 18, guideline_diet |-> 13,
      philosophy |-> 9, injury |-> 9, feedback |-> 4, meal_ex |-> 4,
      workout_ex |-> 10, tone |-> 10 ]

\* An achievement percentage p is held as p * AchievementUnit; every target
\* divides AchievementUnit, so count / target * 100 is exact.
AchievementUnit == 120

\* A weight w is held as w * WeightUnit.
WeightUnit == 100

\* A score of p points is held as p * ScoreUnit.
ScoreUnit == AchievementUnit * WeightUnit

Min(a, b) == IF a <= b THEN a ELSE b

\* ------------------------------------------------------------------------
\* calculate_score
\* ------------------------------------------------------------------------

\* Mutant of Achievement: a count above its target earns nothing.
AchievementLostAboveTarget(current_count, target_count) ==
    IF current_count > target_count THEN 0
    ELSE (current_count * 100 * AchievementUnit) \div target_count

\* Mutant of Achievement: the clamp at 100 is left out.
AchievementUnclamped(current_count, target_count) ==
    (current_count * 100 * AchievementUnit) \div target_count

\* achievement = min((current_count / target_count) * 100, 100)
Achievement(current_count, target_count) ==
    Min((current_count * 100 * AchievementUnit) \div target_count,
        100 * AchievementUnit)

\* score = achievement * weight
CategoryScore(category, current_count) ==
    Achievement(current_count, target[category]) * weights[category]

\* The loop of calculate_score over current_data.items(), in dictionary
\* order: total_score += score.  Accumulate(data, n) is total_score after the
\* first n categories.
RECURSIVE Accumulate(_, _)
Accumulate(data, n) ==
    IF n = 0 THEN 0
    ELSE Accumulate(data, n - 1)
         + CategoryScore(CategoryOrder[n], data[CategoryOrder[n]])

\* Mutant of TotalScore: the loop stops one category early.
TotalScoreShortLoop(data) == Accumulate(data, Len(CategoryOrder) - 1)

TotalScore(data) == Accumulate(data, Len(CategoryOrder))

\* details.append({...}) per category: the achievement and the score.
Details(data) ==
    [ c \in Categories |->
        [ achievement |-> Achievement(data[c], target[c]),
          score       |-> CategoryScore(c, data[c]) ] ]

\* Mutant of Tier: the comparisons are strict.
TierStrict(score) ==
    IF score > 85 * ScoreUnit THEN "Gold"
    ELSE IF score > 75 * ScoreUnit THEN "Silver"
    ELSE IF score > 60 * ScoreUnit THEN "Bronze"
    ELSE "Unrated"

\* Tier decision: if / elif chain over total_score.
Tier(score) ==
    IF score >= 85 * ScoreUnit THEN "Gold"
    ELSE IF score >= 75 * ScoreUnit THEN "Silver"
    ELSE IF score >= 60 * ScoreUnit THEN "Bronze"
    ELSE "Unrated"

\* ------------------------------------------------------------------------
\* Shortfall priority ranking (main, tab 1)
\* ------------------------------------------------------------------------

\* needed = target[category] - current_data[category]
Needed(data, category) == target[category] - data[category]

\* priority_score = (needed / target[category]) * weights_dict[category],
\* exact, in 1/ScoreUnit.  (In the source the product is a float; two
\* priorities that are equal as rationals can differ in the last bit there.)
PriorityScore(data, category) ==
    ((Needed(data, category) * AchievementUnit) \div target[category])
        * weights_dict[category]

\* The loop that fills needed_data: categories in dictionary order, kept
\* when needed > 0.
RECURSIVE NeededList(_, _)
NeededList(data, n) ==
    IF n = 0 THEN << >>
    ELSE IF Needed(data, CategoryOrder[n]) > 0
         THEN Append(NeededList(data, n - 1), CategoryOrder[n])
         ELSE NeededList(data, n - 1)

\* list.sort(key=priority, reverse=True): a stable sort, descending; equal
\* keys keep their order in the list.  InsertDesc puts x behind every
\* element whose key is >= x's key.
RECURSIVE InsertDesc(_, _, _)
InsertDesc(data, s, x) ==
    IF s = << >> THEN << x >>
    ELSE IF PriorityScore(data, Head(s)) >= PriorityScore(data, x)
         THEN << Head(s) >> \o InsertDesc(data, Tail(s), x)
         ELSE << x >> \o s

\* Mutant of SortDesc: an unstable descending sort (an element goes in front
\* of its equals).
RECURSIVE InsertDescUnstable(_, _, _)
InsertDescUnstable(data, s, x) ==
    IF s = << >> THEN << x >>
    ELSE IF PriorityScore(data, Head(s)) > PriorityScore(data, x)
         THEN << Head(s) >> \o InsertDescUnstable(data, Tail(s), x)
         ELSE << x >> \o s

RECURSIVE SortDescUnstable(_, _, _)
SortDescUnstable(data, s, n) ==
    IF n = 0 THEN << >>
    ELSE InsertDescUnstable(data, SortDescUnstable(data, s, n - 1), s[n])

RECURSIVE SortDesc(_, _, _)
SortDesc(data, s, n) ==
    IF n = 0 THEN << >>
    ELSE InsertDesc(data, SortDesc(data, s, n - 1), s[n])

NeededData(data) ==
    LET unsorted == NeededList(data, Len(CategoryOrder))
    IN  SortDesc(data, unsorted, Len(unsorted))

\* ------------------------------------------------------------------------
\* The scoring engine as a state machine
\* ------------------------------------------------------------------------

\* How far above its target a count may be in the count maps below.
MaxOver == 1

\* The count maps the scoring engine is applied to: every category is empty
\* or filled to its target plus a common excess, and one category carries
\* any count from 0 to its target plus MaxOver.
CountMap(full, over, f, k) ==
    [ c \in Categories |->
        IF c = f THEN k
        ELSE IF c \in full THEN target[c] + over ELSE 0 ]

NoDetails == [ c \in Categories |-> [ achievement |-> 0, score |-> 0 ] ]

ScoreInputs ==
    /\ \E full \in SUBSET Categories, over \in 0..MaxOver, f \in Categories :
          \E k \in 0..(target[f] + MaxOver) :
             current_data = CountMap(full, over, f, k)
    /\ total_score = 0
    /\ tier = "none"
    /\ details = NoDetails
    /\ needed_data = << >>
    /\ pc = "input"

\* One render of main: calculate_score(current_data), then the ranking.
Render ==
    /\ pc = "input"
    /\ total_score' = TotalScore(current_data)
    /\ tier' = Tier(TotalScore(current_data))
    /\ details' = Details(current_data)
    /\ needed_data' = NeededData(current_data)
    /\ pc' = "scored"
    /\ UNCHANGED current_data
    /\ UNCHANGED store_vars

\* ========================================================================
\* Row store gateway
\* ========================================================================

\* ------------------------------------------------------------------------
\* Values.  A stored or submitted value is a text or a list of texts; both
\* are held as [k, v] with v a sequence of strings, so that a text "a" and
\* the singleton list ["a"] are different values.
\* ------------------------------------------------------------------------

Str(s) == [ k |-> "text", v |-> << s >> ]

List(seq) == [ k |-> "list", v |-> seq ]

\* Python truthiness of a text: the empty string is falsy.
Truthy(val) == val # Str("")

\* A keywords input is a text holding commas.  It is held by its pieces, the
\* parts between the commas: "k, m" is <<"k", " m">> and "" is <<"">>, which
\* is what str.split(',') returns.
KeywordText(pieces) == [ k |-> "text", v |-> pieces ]

Split(val) == val.v

\* str.strip() on the pieces used here.
Strip(piece) ==
    CASE piece = " m" -> "m"
      [] piece = " "  -> ""
      [] OTHER        -> piece

\* [k.strip() for k in text.split(',') if k.strip()]
RECURSIVE StripNonEmpty(_)
StripNonEmpty(pieces) ==
    IF pieces = << >> THEN << >>
    ELSE IF Strip(Head(pieces)) # ""
         THEN << Strip(Head(pieces)) >> \o StripNonEmpty(Tail(pieces))
         ELSE StripNonEmpty(Tail(pieces))

\* ------------------------------------------------------------------------
\* Category registry: tables and columns
\* ------------------------------------------------------------------------

\* tables of get_current_data, delete_data and update_data
tables ==
    [ QnA               |-> "data_trainer_qna",
      guideline_workout |-> "data_trainer_workout_guideline",
      guideline_diet    |-> "data_trainer_diet_guideline",
      philosophy        |-> "data_trainer_philosophy",
      injury            |-> "data_trainer_injury",
      feedback          |-> "data_trainer_feedback",
      meal_ex           |-> "data_trainer_meal_examples",
      workout_ex        |-> "data_trainer_workout_examples",
      tone              |-> "data_trainer_tones_raw" ]

TableNames == { tables[c] : c \in Categories }

\* The columns get_category_data selects, per category, without id and
\* created_at (a row carries its id apart; created_at is the order of
\* insertion, which the id gives within one table).
columns ==
    [ QnA               |-> {"question", "answer", "category", "risk_level"},
      guideline_workout |-> {"title", "content", "category"},
      guideline_diet    |-> {"title", "content", "category"},
      philosophy        |-> {"content", "category"},
      injury            |-> {"title", "content", "body_part", "risk_level", "keywords"},
      feedback          |-> {"user_goal", "title", "content", "category", "keywords"},
      meal_ex           |-> {"title", "content", "category"},
      workout_ex        |-> {"title", "content", "category", "user_level"},
      tone              |-> {"trainer_name", "raw_data"} ]

\* The columns a table is known to have: those the INSERT of add_data names
\* and those get_category_data selects.  tones_raw has no language column in
\* its INSERT.
TableColumns(category) ==
    columns[category] \cup {"trainer_id"}
        \cup (IF category = "tone" THEN {} ELSE {"language"})

\* The columns written with a Python list (array columns); the others are
\* text columns.
ListColumns == {"category", "body_part", "keywords"}

\* A category name outside the fixed set, as a caller may pass it.
UnknownCategory == "unknown"

CategoryInputs == Categories \cup {UnknownCategory}

\* The trainers (owners) of the model.
Trainers == {"tr_001", "tr_002"}

\* ------------------------------------------------------------------------
\* The INSERT statement of each branch of add_data: the column list and the
\* VALUES list (parameters and literals) as written in the source.
\* ------------------------------------------------------------------------

\* data_dict.get(key, default)
Get(data_dict, key, default) ==
    IF key \in DOMAIN data_dict THEN data_dict[key] ELSE default

\* The keys a branch reads with data_dict[key]; a missing one is a KeyError.
SubscriptedKeys(category) ==
    CASE category = "QnA"               -> {"question", "answer"}
      [] category = "guideline_workout" -> {"title", "content"}
      [] category = "guideline_diet"    -> {"title", "content"}
      [] category = "philosophy"        -> {"content"}
      [] category = "injury"            -> {"title", "content", "body_part"}
      [] category = "feedback"          -> {"title", "content", "feedback_type"}
      [] category = "meal_ex"           -> {"title", "content", "meal_type"}
      [] category = "workout_ex"        -> {"title", "content", "workout_type"}
      [] category = "tone"              -> {"raw_data"}
      [] OTHER                          -> {}

InsertColumns(category) ==
    CASE category = "QnA" ->
            << "trainer_id", "question", "answer", "category", "risk_level", "language" >>
      [] category \in {"guideline_workout", "guideline_diet"} ->
            << "trainer_id", "title", "content", "category", "language" >>
      [] category = "philosophy" ->
            << "trainer_id", "content", "category", "language" >>
      [] category = "injury" ->
            << "trainer_id", "title", "content", "body_part", "risk_level",
               "keywords", "language" >>
      [] category = "feedback" ->
            << "trainer_id", "user_goal", "title", "content", "category",
               "keywords", "language" >>
      [] category = "meal_ex" ->
            << "trainer_id", "title", "content", "category", "language" >>
      [] category = "workout_ex" ->
            << "trainer_id", "title", "content", "category", "user_level", "language" >>
      [] category = "tone" ->
            << "trainer_id", "trainer_name", "raw_data" >>

InsertValues(trainer_id, category, data_dict) ==
    CASE category = "QnA" ->
            << Str(trainer_id), data_dict["question"], data_dict["answer"],
               List(<< "general" >>), Get(data_dict, "risk_level", Str("low")),
               Str("ko") >>
      [] category = "guideline_workout" ->
            << Str(trainer_id), data_dict["title"], data_dict["content"],
               List(<< "exercise" >>), Str("ko") >>
      [] category = "guideline_diet" ->
            << Str(trainer_id), data_dict["title"], data_dict["content"],
               List(<< "diet" >>), Str("ko") >>
      [] category = "philosophy" ->
            << Str(trainer_id), data_dict["content"], List(<< "mindset" >>),
               Str("ko") >>
      [] category = "injury" ->
            << Str(trainer_id), data_dict["title"], data_dict["content"],
               List(data_dict["body_part"].v),
               Get(data_dict, "risk_level", Str("medium")),
               IF Truthy(Get(data_dict, "keywords", Str("")))
                   THEN List(Split(Get(data_dict, "keywords", Str(""))))
                   ELSE List(<< >>),
               Str("ko") >>
      [] category = "feedback" ->
            << Str(trainer_id), Get(data_dict, "user_goal", Str("")),
               data_dict["title"], data_dict["content"],
               List(data_dict["feedback_type"].v),
               List(StripNonEmpty(Split(Get(data_dict, "keywords", Str(""))))),
               Str("ko") >>
      [] category = "meal_ex" ->
            << Str(trainer_id), data_dict["title"], data_dict["content"],
               List(data_dict["meal_type"].v),
               Get(data_dict, "user_level", Str("beginner")), Str("ko") >>
      [] category = "workout_ex" ->
            << Str(trainer_id), data_dict["title"], data_dict["content"],
               List(data_dict["workout_type"].v),
               Get(data_dict, "user_level", Str("beginner")), Str("ko") >>
      [] category = "tone" ->
            << Str(trainer_id), Get(data_dict, "trainer_name", Str("")),
               data_dict["raw_data"] >>

\* PostgreSQL accepts an INSERT whose VALUES list has one expression per
\* target column; otherwise the statement is an error.
WellFormedInsert(cols, vals) == Len(cols) = Len(vals)

\* The row an accepted INSERT stores, without its id.
InsertedRow(cols, vals) ==
    [ col \in { cols[i] : i \in 1..Len(cols) } |->
        vals[CHOOSE i \in 1..Len(cols) : cols[i] = col] ]

\* ------------------------------------------------------------------------
\* State of the gateway
\* ------------------------------------------------------------------------

\* @st.cache_data(ttl=60)
CACHE_TTL == 60

\* Model bounds: rows inserted in one run, listings held in the read cache
\* at once.
MaxInserts == 1

MaxCached == 1

\* The clock advances in steps of half the TTL.
TickSeconds == CACHE_TTL \div 2


\* The row store: per table, the committed rows.  A row is [id, vals], vals
\* mapping each column to its value.
EmptyStore == [ t \in TableNames |-> {} ]

\* COUNT(*) FROM table WHERE trainer_id = %s
CountRows(store, category, trainer_id) ==
    Cardinality({ r \in store[tables[category]] :
                    r.vals["trainer_id"] = Str(trainer_id) })

\* The true counts of a trainer, category by category.
TrueCounts(store, trainer_id) ==
    [ c \in Categories |-> CountRows(store, c, trainer_id) ]

\* The ids handed out so far, over all tables.
RECURSIVE SumIds(_, _)
SumIds(ids, ts) ==
    IF ts = {} THEN 0
    ELSE LET t == CHOOSE x \in ts : TRUE
         IN  (ids[t] - 1) + SumIds(ids, ts \ {t})

Inserted(ids) == SumIds(ids, TableNames)

\* SELECT columns FROM table WHERE trainer_id = %s ORDER BY created_at DESC:
\* the selected columns of the trainer's rows, newest first.
RECURSIVE NewestFirst(_)
NewestFirst(rows) ==
    IF rows = {} THEN << >>
    ELSE LET newest == CHOOSE r \in rows : \A q \in rows : q.id <= r.id
         IN  << newest >> \o NewestFirst(rows \ {newest})

SelectRows(store, category, trainer_id) ==
    NewestFirst({ [ id   |-> r.id,
                    vals |-> [ col \in columns[category] |-> r.vals[col] ] ]
                  : r \in { q \in store[tables[category]] :
                              q.vals["trainer_id"] = Str(trainer_id) } })

\* ------------------------------------------------------------------------
\* The cached connection
\*   "none"    no connection cached (st.cache_resource is empty)
\*   "idle"    a live connection, no failed transaction
\*   "aborted" a live connection whose transaction has failed: every
\*             statement raises InFailedSqlTransaction until a rollback
\*   "closed"  a cached connection that is dead
\* ------------------------------------------------------------------------

ConnStates == {"none", "idle", "aborted", "closed"}

\* get_safe_connection.  reachable: whether psycopg2.connect succeeds now.
\* Result: the cached connection afterwards, whether the call returned (ok)
\* or raised, and the statements it issued.
\*  - nothing cached: get_db_connection connects (or raises), then SELECT 1;
\*  - idle: SELECT 1 succeeds;
\*  - aborted: SELECT 1 raises InFailedSqlTransaction, an InternalError,
\*    which the except clause does not name: it propagates;
\*  - closed: SELECT 1 raises OperationalError / InterfaceError; the cache is
\*    cleared and get_db_connection connects once more (or raises).
get_safe_connection(c, reachable) ==
    CASE c = "none" ->
            IF reachable
                THEN [ conn |-> "idle", ok |-> TRUE, stmts |-> << "SELECT 1" >> ]
                ELSE [ conn |-> "none", ok |-> FALSE, stmts |-> << >> ]
      [] c = "idle" ->
            [ conn |-> "idle", ok |-> TRUE, stmts |-> << "SELECT 1" >> ]
      [] c = "aborted" ->
            [ conn |-> "aborted", ok |-> FALSE, stmts |-> << "SELECT 1" >> ]
      [] c = "closed" ->
            IF reachable
                THEN [ conn |-> "idle", ok |-> TRUE, stmts |-> << "SELECT 1" >> ]
                ELSE [ conn |-> "none", ok |-> FALSE, stmts |-> << "SELECT 1" >> ]

\* What can go wrong with a statement of an operation:
\*   "none"          nothing
\*   "sql_error"     the server rejects the statement (constraint violation,
\*                   missing table, timeout); the transaction is aborted
\*   "conn_lost"     the connection dies while the statement runs
\*   "commit_lost"   the connection dies during COMMIT, the commit is not applied
\*   "commit_late"   the connection dies during COMMIT, the commit is applied
ReadFaults == {"none", "sql_error", "conn_lost"}

WriteFaults == {"none", "sql_error", "conn_lost", "commit_lost", "commit_late"}

\* The inputs that matter to a call: whether the store is reachable matters
\* when get_safe_connection has to connect, a fault of a statement when the
\* call gets as far as a statement, the backend's answer for a tone insert.
ReachableChoices(c) == IF c \in {"none", "closed"} THEN BOOLEAN ELSE {TRUE}

FaultChoices(c, reachable, faults) ==
    IF get_safe_connection(c, reachable).ok THEN faults ELSE {"none"}

\* The count queries that fail by themselves in the runs explored: none, the
\* first one, one in the middle.
FailPoints == {"", "QnA", "injury"}

\* The connection after a failed statement.
ConnAfterFault(fault) == IF fault = "sql_error" THEN "aborted" ELSE "closed"

\* ------------------------------------------------------------------------
\* get_current_data
\* ------------------------------------------------------------------------

\* The loop over tables.items(): one COUNT query per category on the same
\* cursor, each in its own try/except that stores 0 on any exception.  failAt
\* is the category whose query fails by itself ("" for none) and fault how.
\* Once a query has failed the connection is aborted or closed, so every
\* later execute raises too.  Result after the first n categories.
RECURSIVE CountLoop(_, _, _, _, _)
CountLoop(store, trainer_id, failAt, fault, n) ==
    IF n = 0 THEN [ data |-> << >>, conn |-> "idle" ]
    ELSE LET prev == CountLoop(store, trainer_id, failAt, fault, n - 1)
             name == CategoryOrder[n]
         IN  IF prev.conn = "idle" /\ name # failAt
             THEN [ data |-> prev.data @@ (name :> CountRows(store, name, trainer_id)),
                    conn |-> "idle" ]
             ELSE [ data |-> prev.data @@ (name :> 0),
                    conn |-> IF prev.conn = "idle" THEN ConnAfterFault(fault)
                             ELSE prev.conn ]

\* get_current_data(trainer_id): get_safe_connection inside try/finally (no
\* except: its exception leaves the function), then the loop.
get_current_data(c, store, trainer_id, reachable, failAt, fault) ==
    LET sc   == get_safe_connection(c, reachable)
        loop == CountLoop(store, trainer_id, failAt, fault, Len(CategoryOrder))
    IN  IF ~sc.ok
        THEN [ conn |-> sc.conn, raised |-> TRUE, data |-> << >>,
               stmts |-> sc.stmts ]
        ELSE [ conn |-> loop.conn, raised |-> FALSE, data |-> loop.data,
               stmts |-> sc.stmts \o << "SELECT COUNT" >> ]

\* ------------------------------------------------------------------------
\* delete_data, update_data, add_data
\* Each result: the connection and the store afterwards, whether the call
\* raised, the returned (ok, msg), whether st.cache_data.clear() ran, and the
\* statements issued on the connection.
\* ------------------------------------------------------------------------

\* try: execute; commit / except: rollback, as the write paths share it.
\* accepted: whether the server accepts the statement; after: the store if
\* the statement is committed.  conn.rollback() on a dead connection raises
\* inside the except block, so the exception leaves the function.
ExecuteAndCommit(store, after, accepted, fault, stmt) ==
    CASE fault = "conn_lost" ->
            [ store |-> store, conn |-> "closed", outcome |-> "raised",
              stmts |-> << stmt >> ]
      [] fault # "conn_lost" /\ (fault = "sql_error" \/ ~accepted) ->
            [ store |-> store, conn |-> "idle", outcome |-> "rolled_back",
              stmts |-> << stmt, "ROLLBACK" >> ]
      [] fault = "commit_lost" /\ accepted ->
            [ store |-> store, conn |-> "closed", outcome |-> "raised",
              stmts |-> << stmt, "COMMIT" >> ]
      [] fault = "commit_late" /\ accepted ->
            [ store |-> after, conn |-> "closed", outcome |-> "raised",
              stmts |-> << stmt, "COMMIT" >> ]
      [] fault = "none" /\ accepted ->
            [ store |-> after, conn |-> "idle", outcome |-> "committed",
              stmts |-> << stmt, "COMMIT" >> ]

\* A DELETE that loses its WHERE clause.
StoreAfterDeleteAll(store, category, data_id) ==
    [ store EXCEPT ![tables[category]] = {} ]

\* DELETE FROM table WHERE id = %s
StoreAfterDelete(store, category, data_id) ==
    [ store EXCEPT ![tables[category]] = { r \in @ : r.id # data_id } ]

delete_data(c, store, category, data_id, reachable, fault) ==
    LET sc == get_safe_connection(c, reachable)
        tx == ExecuteAndCommit(store, StoreAfterDelete(store, category, data_id),
                               TRUE, fault, "DELETE")
    IN  IF ~sc.ok
        THEN [ conn |-> sc.conn, store |-> store, raised |-> TRUE, ok |-> FALSE,
               msg |-> "", cleared |-> FALSE, stmts |-> sc.stmts ]
        ELSE IF category \notin Categories
        THEN [ conn |-> sc.conn, store |-> store, raised |-> FALSE, ok |-> FALSE,
               msg |-> "invalid_category", cleared |-> FALSE, stmts |-> sc.stmts ]
        ELSE [ conn |-> tx.conn, store |-> tx.store,
               raised |-> (tx.outcome = "raised"),
               ok |-> (tx.outcome = "committed"),
               msg |-> CASE tx.outcome = "committed"   -> "deleted"
                         [] tx.outcome = "rolled_back" -> "delete_failed"
                         [] OTHER                      -> "",
               cleared |-> (tx.outcome = "committed"),
               stmts |-> sc.stmts \o tx.stmts ]

\* The server accepts UPDATE table SET key = %s, ... WHERE id = %s when the
\* SET clause is not empty, every key is a column of the table and every
\* value has the column's type.
UpdateAccepted(category, updated_fields) ==
    /\ DOMAIN updated_fields # {}
    /\ DOMAIN updated_fields \subseteq TableColumns(category)
    /\ \A key \in DOMAIN updated_fields :
          (key \in ListColumns) = (updated_fields[key].k = "list")

\* An UPDATE that loses its WHERE clause.
StoreAfterUpdateAll(store, category, data_id, updated_fields) ==
    [ store EXCEPT ![tables[category]] =
        { [ r EXCEPT !.vals =
              [ col \in DOMAIN r.vals |->
                  IF col \in DOMAIN updated_fields
                      THEN updated_fields[col] ELSE r.vals[col] ] ]
          : r \in @ } ]

\* UPDATE table SET key = %s, ... WHERE id = %s
StoreAfterUpdate(store, category, data_id, updated_fields) ==
    [ store EXCEPT ![tables[category]] =
        { IF r.id = data_id
            THEN [ r EXCEPT !.vals =
                     [ col \in DOMAIN r.vals |->
                         IF col \in DOMAIN updated_fields
                             THEN updated_fields[col] ELSE r.vals[col] ] ]
            ELSE r
          : r \in @ } ]

update_data(c, store, category, data_id, updated_fields, reachable, fault) ==
    LET sc == get_safe_connection(c, reachable)
        tx == ExecuteAndCommit(
                  store,
                  IF UpdateAccepted(category, updated_fields)
                      THEN StoreAfterUpdate(store, category, data_id, updated_fields)
                      ELSE store,
                  UpdateAccepted(category, updated_fields), fault, "UPDATE")
    IN  IF ~sc.ok
        THEN [ conn |-> sc.conn, store |-> store, raised |-> TRUE, ok |-> FALSE,
               msg |-> "", cleared |-> FALSE, stmts |-> sc.stmts ]
        ELSE IF category \notin Categories
        THEN [ conn |-> sc.conn, store |-> store, raised |-> FALSE, ok |-> FALSE,
               msg |-> "invalid_category", cleared |-> FALSE, stmts |-> sc.stmts ]
        ELSE [ conn |-> tx.conn, store |-> tx.store,
               raised |-> (tx.outcome = "raised"),
               ok |-> (tx.outcome = "committed"),
               msg |-> CASE tx.outcome = "committed"   -> "updated"
                         [] tx.outcome = "rolled_back" -> "update_failed"
                         [] OTHER                      -> "",
               cleared |-> (tx.outcome = "committed"),
               stmts |-> sc.stmts \o tx.stmts ]

\* The answers of the tone-analysis backend to requests.post.
HttpOutcomes == {"200", "204", "500", "timeout"}

HttpChoices(category) ==
    IF category = "tone" THEN HttpOutcomes ELSE {"not_sent"}

\* trigger_tone_analyze(trainer_id): one requests.post; success for status
\* 200, failure with resp.text for any other status, failure with the
\* exception's text when the request raises.
trigger_tone_analyze(http) ==
    [ ok    |-> (http = "200"),
      msg   |-> CASE http = "200" -> "analyzed"
                  [] http = "timeout" -> "analysis_request_error"
                  [] OTHER -> "analysis_failed",
      posts |-> 1 ]

\* An add_data that reports failure unless the analysis succeeded.
AnalyzeReplyStrict(http) ==
    [ ok  |-> (http = "200"),
      msg |-> CASE http = "200" -> "added_and_analyzed"
                [] http \in {"204", "500"} -> "saved_analysis_failed"
                [] OTHER -> "saved_analysis_call_failed" ]

\* What the tone branch of add_data returns after its commit, by the outcome
\* of requests.post: True in every case, with a message of its own.
AnalyzeReply(http) ==
    [ ok  |-> TRUE,
      msg |-> CASE http = "200" -> "added_and_analyzed"
                [] http \in {"204", "500"} -> "saved_analysis_failed"
                [] OTHER -> "saved_analysis_call_failed" ]

\* The store after the INSERT of add_data is committed.
StoreAfterInsert(store, ids, trainer_id, category, data_dict) ==
    [ store EXCEPT ![tables[category]] =
        @ \cup { [ id   |-> ids[tables[category]],
                   vals |-> InsertedRow(InsertColumns(category),
                                InsertValues(trainer_id, category, data_dict)) ] } ]

\* add_data(trainer_id, category, data_dict).  ids: the next id of each
\* table.  A category outside the if/elif chain executes nothing and falls
\* through to conn.commit() and "return True".  The tone branch commits and
\* then posts to the backend; every outcome of the post returns True.
add_data(c, store, ids, trainer_id, category, data_dict, reachable, fault, http) ==
    LET sc == get_safe_connection(c, reachable)
        known == category \in Categories
        keyError == known /\ ~(SubscriptedKeys(category) \subseteq DOMAIN data_dict)
        accepted == known /\ ~keyError
                    /\ WellFormedInsert(InsertColumns(category),
                           InsertValues(trainer_id, category, data_dict))
        tx == IF known /\ ~keyError
              THEN ExecuteAndCommit(
                       store,
                       IF accepted
                           THEN StoreAfterInsert(store, ids, trainer_id, category, data_dict)
                           ELSE store,
                       accepted, fault, "INSERT")
              ELSE IF keyError
              THEN [ store |-> store, conn |-> "idle", outcome |-> "rolled_back",
                     stmts |-> << "ROLLBACK" >> ]
              ELSE IF fault \in {"commit_lost", "commit_late"}
              THEN [ store |-> store, conn |-> "closed", outcome |-> "raised",
                     stmts |-> << "COMMIT" >> ]
              ELSE [ store |-> store, conn |-> "idle", outcome |-> "committed",
                     stmts |-> << "COMMIT" >> ]
        posted == category = "tone" /\ tx.outcome = "committed"
    IN  IF ~sc.ok
        THEN [ conn |-> sc.conn, store |-> store, raised |-> TRUE, ok |-> FALSE,
               msg |-> "", cleared |-> FALSE, stmts |-> sc.stmts,
               inserted |-> FALSE, posts |-> 0 ]
        ELSE [ conn |-> tx.conn, store |-> tx.store,
               raised |-> (tx.outcome = "raised"),
               ok |-> (tx.outcome = "committed" /\ (posted => AnalyzeReply(http).ok)),
               msg |-> CASE tx.outcome = "rolled_back" -> "error"
                         [] tx.outcome = "raised" -> ""
                         [] posted -> AnalyzeReply(http).msg
                         [] OTHER -> "added",
               cleared |-> FALSE,
               stmts |-> sc.stmts \o tx.stmts,
               inserted |-> (tx.store # store),
               posts |-> IF posted THEN 1 ELSE 0 ]

\* ------------------------------------------------------------------------
\* Inputs of the operations
\* ------------------------------------------------------------------------

\* What a text widget of the add form holds: nothing or some text.
TextInputs == { Str(""), Str("a") }

\* What the keywords widget holds in the runs explored: "k, m".
KeywordInputs == { KeywordText(<< "k", " m" >>) }

\* data_dict as the add form of main fills it, per category.
FormDicts(category) ==
    CASE category = "QnA" ->
            { [ question |-> q, answer |-> a, risk_level |-> Str("low") ]
              : q \in TextInputs, a \in TextInputs }
      [] category \in {"guideline_workout", "guideline_diet"} ->
            { [ title |-> t, content |-> b ] : t \in TextInputs, b \in TextInputs }
      [] category = "philosophy" ->
            { [ content |-> b ] : b \in TextInputs }
      [] category = "injury" ->
            { [ title |-> t, content |-> b, body_part |-> Str("knee"),
                risk_level |-> Str("low"), keywords |-> kw ]
              : t \in TextInputs, b \in TextInputs, kw \in KeywordInputs }
      [] category = "feedback" ->
            { [ user_goal |-> Str("diet_goal"), title |-> t, content |-> b,
                feedback_type |-> Str("diet"), keywords |-> kw ]
              : t \in TextInputs, b \in TextInputs, kw \in KeywordInputs }
      [] category = "meal_ex" ->
            { [ meal_type |-> Str("breakfast"), title |-> t, content |-> b,
                user_level |-> Str("beginner") ]
              : t \in TextInputs, b \in TextInputs }
      [] category = "workout_ex" ->
            { [ workout_type |-> Str("full_body"), title |-> t, content |-> b,
                user_level |-> Str("beginner") ]
              : t \in TextInputs, b \in TextInputs }
      [] category = "tone" ->
            { [ trainer_name |-> Str(""), raw_data |-> b ] : b \in TextInputs }

\* required_fields of the save handler
required_fields ==
    [ QnA               |-> {"question", "answer"},
      guideline_workout |-> {"title", "content"},
      guideline_diet    |-> {"title", "content"},
      philosophy        |-> {"content"},
      injury            |-> {"title", "content", "body_part"},
      feedback          |-> {"title", "content", "feedback_type"},
      meal_ex           |-> {"meal_type", "title", "content"},
      workout_ex        |-> {"workout_type", "title", "content"},
      tone              |-> {"raw_data"} ]

\* A validation that only asks whether the field is there.
MissingKeys(category, data_dict) ==
    { field \in required_fields[category] : field \notin DOMAIN data_dict }

\* missing = [field for field in required_fields[category]
\*            if not data_dict.get(field)]
Missing(category, data_dict) ==
    { field \in required_fields[category] :
        ~Truthy(Get(data_dict, field, Str(""))) }

\* updated_fields as a caller of update_data may pass it: one text column,
\* two columns, a list column, no column, a column the table does not have.
UpdateInputs(category) ==
    LET first == IF category = "QnA" THEN "question"
                 ELSE IF category = "tone" THEN "raw_data"
                 ELSE "content"
    IN  { (first :> Str("b")),
          << >>,
          ("no_such_column" :> Str("b")) }
        \cup (IF "category" \in columns[category]
                THEN { (first :> Str("b")) @@ ("category" :> List(<< "b" >>)) }
                ELSE {})

\* ------------------------------------------------------------------------
\* The edit form of the manage tab
\* ------------------------------------------------------------------------

\* The options of the select boxes, the first Korean labels as ASCII aliases.
RiskLevels == << "low", "medium", "high" >>

BodyParts == << "knee", "shoulder", "back", "wrist", "ankle", "elbow", "other" >>

UserGoals == << "diet_goal", "muscle_goal", "fitness_goal", "health_goal",
               "rehab_goal", "posture_goal" >>

FeedbackTypes == << "diet", "workout", "lifestyle" >>

MealTypes == << "breakfast", "lunch", "dinner", "snack" >>

WorkoutTypes == << "upper_body", "lower_body", "full_body", "cardio", "stretching" >>

UserLevels == << "beginner", "intermediate", "advanced" >>

\* st.selectbox(options, index=options.index(current) if current in options
\* else fallback): the option selected when the form is not touched.
Selected(options, current, fallback) ==
    IF \E i \in 1..Len(options) : options[i] = current
        THEN current ELSE options[fallback]

\* value[0] if isinstance(value, list) (and it is not empty) else default
FirstOf(val, default) ==
    IF val.k = "list" /\ val.v # << >> THEN val.v[1] ELSE default

\* ','.join(keywords_value) if it is a list: the text whose pieces are the
\* list's elements; of the empty list, the empty text.
Join(val) ==
    IF val.k # "list" THEN val
    ELSE IF val.v = << >> THEN Str("") ELSE KeywordText(val.v)

\* updated_fields as the edit form fills it from a row of the listing when
\* no widget is touched.  row: the row's selected columns.
EditForm(category, row) ==
    CASE category = "QnA" ->
            [ question |-> row["question"], answer |-> row["answer"],
              risk_level |-> row["risk_level"] ]
      [] category \in {"guideline_workout", "guideline_diet"} ->
            [ title |-> row["title"], content |-> row["content"] ]
      [] category = "philosophy" ->
            [ content |-> row["content"] ]
      [] category = "injury" ->
            [ title |-> row["title"], content |-> row["content"],
              body_part |-> List(<< Selected(BodyParts,
                                             FirstOf(row["body_part"], "other"), 7) >>),
              risk_level |-> row["risk_level"] ]
      [] category = "feedback" ->
            [ user_goal |-> Str(Selected(UserGoals, row["user_goal"].v[1], 1)),
              title |-> row["title"], content |-> row["content"],
              feedback_type |-> Str(Selected(FeedbackTypes,
                                             FirstOf(row["category"], "diet"), 1)),
              keywords |-> Join(row["keywords"]) ]
      [] category = "meal_ex" ->
            [ meal_type |-> Str(Selected(MealTypes,
                                         FirstOf(row["category"], "breakfast"), 1)),
              title |-> row["title"], content |-> row["content"],
              user_level |-> Str(Selected(UserLevels,
                                          Get(row, "user_level", Str("beginner")).v[1], 1)) ]
      [] category = "workout_ex" ->
            [ workout_type |-> Str(Selected(WorkoutTypes,
                                            FirstOf(row["category"], "full_body"), 1)),
              title |-> row["title"], content |-> row["content"],
              user_level |-> Str(Selected(UserLevels,
                                          Get(row, "user_level", Str("beginner")).v[1], 1)) ]
      [] category = "tone" ->
            [ trainer_name |-> row["trainer_name"], raw_data |-> row["raw_data"] ]

\* updated_fields.pop(from) stored under 'category' as a singleton list.
PopToCategory(fields, from) ==
    [ key \in (DOMAIN fields \ {from}) \cup {"category"} |->
        IF key = "category" THEN List(<< fields[from].v[1] >>) ELSE fields[key] ]

\* A submit that sends the form as it is, without the special handling.
SubmitFieldsPlain(category, fields) == fields

\* The special handling of the fields on submit_update.
SubmitFields(category, fields) ==
    CASE category = "feedback" ->
            PopToCategory(
                [ fields EXCEPT !["keywords"] =
                    IF @.k = "text" THEN List(StripNonEmpty(Split(@))) ELSE @ ],
                "feedback_type")
      [] category = "meal_ex" -> PopToCategory(fields, "meal_type")
      [] category = "workout_ex" -> PopToCategory(fields, "workout_type")
      [] OTHER -> fields

\* The text widget a user edits in the runs explored.
EditedField(category) ==
    CASE category = "QnA" -> "answer"
      [] category = "tone" -> "raw_data"
      [] OTHER -> "content"

\* ------------------------------------------------------------------------
\* The gateway as a state machine
\* ------------------------------------------------------------------------

\* The record of a call: its arguments (trainer_id, category, id, keys), what
\* the store did to it (reachable, fault, fail_at, count_fault), what it gave
\* back, and what it did: whether the store's content changed and whether
\* cached listings were discarded.  An action fills in what its call has.  While a call's result
\* is held the script run is not over; Return ends the run.
NoCall ==
    [ op |-> "none", trainer_id |-> "", category |-> "", id |-> 0, keys |-> {},
      reachable |-> TRUE, fault |-> "none", fail_at |-> "", count_fault |-> "none",
      raised |-> FALSE, ok |-> FALSE, msg |-> "", cached |-> FALSE,
      changed |-> FALSE, evicted |-> FALSE, data_dict |-> << >>,
      http |-> "not_sent",
      rows |-> << >>, data |-> << >>, stmts |-> << >>, posts |-> 0 ]

ScoreIdle ==
    /\ current_data = [ c \in Categories |-> 0 ]
    /\ total_score = 0
    /\ tier = "none"
    /\ details = NoDetails
    /\ needed_data = << >>
    /\ pc = "input"

\* The store the dashboard is started on: it holds one feedback row of
\* trainer tr_002, as add_data stores it.
SeedDict ==
    [ user_goal |-> Str("diet_goal"), title |-> Str("a"), content |-> Str("a"),
      feedback_type |-> Str("diet"), keywords |-> KeywordText(<< "k", " m" >>) ]

SeededStore ==
    StoreAfterInsert(EmptyStore, [ t \in TableNames |-> 1 ], "tr_002",
                     "feedback", SeedDict)

SeedRows == Inserted([ t \in TableNames |-> 1 + Cardinality(SeededStore[t]) ])

InitStore ==
    /\ db = SeededStore
    /\ next_id = [ t \in TableNames |-> 1 + Cardinality(SeededStore[t]) ]
    /\ conn = "none"
    /\ cache = {}
    /\ last = NoCall

Init == ScoreIdle /\ InitStore

\* The ids a caller may name: those handed out, and the next one.
RowIds == 1..(SeedRows + MaxInserts)

\* countByOwner: main calls get_current_data(trainer_id).
GetCurrentData(trainer_id) ==
    /\ last.op = "none"
    /\ \E reachable \in ReachableChoices(conn) :
         \E failAt \in FailPoints, fault \in FaultChoices(conn, reachable, ReadFaults) :
           /\ (failAt = "") = (fault = "none")
           /\ LET r == get_current_data(conn, db, trainer_id, reachable, failAt, fault)
              IN  /\ conn' = r.conn
                  /\ last' = [ NoCall EXCEPT
                                 !.op = "count", !.trainer_id = trainer_id,
                                 !.reachable = reachable,
                                 !.fail_at = failAt, !.count_fault = fault,
                                 !.raised = r.raised, !.ok = ~r.raised,
                                 !.data = r.data, !.stmts = r.stmts ]
    /\ UNCHANGED <<db, next_id, cache>>
    /\ UNCHANGED score_vars

\* The cache entry of a key, if st.cache_data holds one.
Cached(entries, trainer_id, category) ==
    { e \in entries : e.trainer_id = trainer_id /\ e.category = category }

\* A get_category_data that rolls back and reads again when its query failed.
get_category_dataRetry(c, store, trainer_id, category, reachable, fault) ==
    LET sc == get_safe_connection(c, reachable)
    IN  IF ~sc.ok
        THEN [ conn |-> sc.conn, rows |-> << >>, ok |-> FALSE, stmts |-> sc.stmts ]
        ELSE IF category \notin Categories
        THEN [ conn |-> sc.conn, rows |-> << >>, ok |-> TRUE, stmts |-> sc.stmts ]
        ELSE [ conn |-> "idle", rows |-> SelectRows(store, category, trainer_id),
               ok |-> TRUE,
               stmts |-> sc.stmts \o (IF fault # "none"
                                        THEN << "SELECT", "ROLLBACK", "SELECT" >>
                                        ELSE << "SELECT" >>) ]

\* The body of get_category_data: every exception, the one of
\* get_safe_connection included, is caught and an empty DataFrame returned.
get_category_data(c, store, trainer_id, category, reachable, fault) ==
    LET sc == get_safe_connection(c, reachable)
    IN  IF ~sc.ok
        THEN [ conn |-> sc.conn, rows |-> << >>, ok |-> FALSE, stmts |-> sc.stmts ]
        ELSE IF category \notin Categories
        THEN [ conn |-> sc.conn, rows |-> << >>, ok |-> TRUE, stmts |-> sc.stmts ]
        ELSE IF fault # "none"
        THEN [ conn |-> ConnAfterFault(fault), rows |-> << >>, ok |-> FALSE,
               stmts |-> sc.stmts \o << "SELECT" >> ]
        ELSE [ conn |-> "idle", rows |-> SelectRows(store, category, trainer_id),
               ok |-> TRUE, stmts |-> sc.stmts \o << "SELECT" >> ]

\* listByOwner: get_category_data behind @st.cache_data(ttl=60).  A cached
\* result is returned without running the body; otherwise the body runs and
\* what it returns is cached, whatever it is.
GetCategoryData(trainer_id, category) ==
    /\ last.op = "none"
    /\ Cached(cache, trainer_id, category) # {} \/ Cardinality(cache) < MaxCached
    /\ IF Cached(cache, trainer_id, category) # {}
       THEN /\ last' = [ NoCall EXCEPT
                           !.op = "list", !.trainer_id = trainer_id,
                           !.category = category, !.ok = TRUE, !.cached = TRUE,
                           !.rows = (CHOOSE e \in Cached(cache, trainer_id, category)
                                        : TRUE).rows ]
            /\ UNCHANGED <<db, next_id, conn, cache>>
       ELSE \E reachable \in ReachableChoices(conn) :
             \E fault \in FaultChoices(conn, reachable, ReadFaults) :
              LET r == get_category_data(conn, db, trainer_id, category, reachable, fault)
              IN  /\ conn' = r.conn
                  /\ cache' = cache \cup { [ trainer_id |-> trainer_id,
                                             category |-> category,
                                             age |-> 0, rows |-> r.rows ] }
                  /\ last' = [ NoCall EXCEPT
                                 !.op = "list", !.trainer_id = trainer_id,
                                 !.category = category,
                                 !.reachable = reachable, !.fault = fault,
                                 !.ok = r.ok,
                                 !.rows = r.rows, !.stmts = r.stmts ]
                  /\ UNCHANGED <<db, next_id>>
    /\ UNCHANGED score_vars

\* insert by a caller other than the save handler: add_data called directly.
AddData(trainer_id, category, data_dict) ==
    /\ last.op = "none"
    /\ Inserted(next_id) < SeedRows + MaxInserts
    /\ \E reachable \in ReachableChoices(conn) :
         \E fault \in FaultChoices(conn, reachable, WriteFaults),
            http \in HttpChoices(category) :
           LET r == add_data(conn, db, next_id, trainer_id, category, data_dict,
                             reachable, fault, http)
           IN  /\ conn' = r.conn
               /\ db' = r.store
               /\ next_id' = IF r.inserted
                               THEN [ next_id EXCEPT ![tables[category]] = @ + 1 ]
                               ELSE next_id
               /\ last' = [ NoCall EXCEPT
                              !.op = "insert", !.trainer_id = trainer_id,
                              !.category = category, !.data_dict = data_dict,
                                    !.http = IF r.posts > 0 THEN http ELSE "not_sent",
                              !.id = IF r.inserted THEN next_id[tables[category]] ELSE 0,
                              !.reachable = reachable, !.fault = fault,
                              !.raised = r.raised, !.ok = r.ok, !.msg = r.msg,
                              !.changed = (r.store # db),
                              !.stmts = r.stmts, !.posts = r.posts ]
    /\ UNCHANGED cache
    /\ UNCHANGED score_vars

\* insert through the save handler of main: the required fields are checked,
\* then add_data is called and, when it reports success, the counts are read
\* again (new_data = get_current_data(trainer_id)).
SaveHandler(trainer_id, category, data_dict) ==
    /\ last.op = "none"
    /\ Inserted(next_id) < SeedRows + MaxInserts
    /\ IF Missing(category, data_dict) # {}
       THEN /\ last' = [ NoCall EXCEPT
                           !.op = "insert", !.trainer_id = trainer_id,
                           !.category = category, !.data_dict = data_dict,
                           !.msg = "missing_fields",
                           !.keys = Missing(category, data_dict) ]
            /\ UNCHANGED <<db, next_id, conn>>
       ELSE \E reachable \in ReachableChoices(conn) :
             \E fault \in FaultChoices(conn, reachable, WriteFaults),
                http \in HttpChoices(category),
                failAt \in {"", "QnA"}, countFault \in {"none", "sql_error"} :
              /\ (failAt = "") = (countFault = "none")
              /\ LET r == add_data(conn, db, next_id, trainer_id, category, data_dict,
                                   reachable, fault, http)
                     n == get_current_data(r.conn, r.store, trainer_id, reachable,
                                           failAt, countFault)
                     recount == r.ok /\ ~r.raised
                 IN  /\ (~recount) => (failAt = "")
                     /\ conn' = IF recount THEN n.conn ELSE r.conn
                     /\ db' = r.store
                     /\ next_id' = IF r.inserted
                                     THEN [ next_id EXCEPT ![tables[category]] = @ + 1 ]
                                     ELSE next_id
                     /\ last' = [ NoCall EXCEPT
                                    !.op = "insert", !.trainer_id = trainer_id,
                                    !.category = category, !.data_dict = data_dict,
                                    !.http = IF r.posts > 0 THEN http ELSE "not_sent",
                                    !.id = IF r.inserted THEN next_id[tables[category]] ELSE 0,
                                    !.reachable = reachable, !.fault = fault,
                                    !.fail_at = failAt, !.count_fault = countFault,
                                    !.raised = r.raised \/ (recount /\ n.raised),
                                    !.ok = r.ok, !.msg = r.msg,
                                    !.changed = (r.store # db),
                                    !.data = IF recount THEN n.data ELSE << >>,
                                    !.stmts = IF recount THEN r.stmts \o n.stmts ELSE r.stmts,
                                    !.posts = r.posts ]
    /\ UNCHANGED cache
    /\ UNCHANGED score_vars

\* update: update_data(category, data_id, updated_fields).
UpdateData(category, data_id, updated_fields) ==
    /\ last.op = "none"
    /\ \E reachable \in ReachableChoices(conn) :
         \E fault \in FaultChoices(conn, reachable, WriteFaults) :
           LET r == update_data(conn, db, category, data_id, updated_fields,
                                reachable, fault)
           IN  /\ conn' = r.conn
               /\ db' = r.store
               /\ cache' = IF r.cleared THEN {} ELSE cache
               /\ last' = [ NoCall EXCEPT
                              !.op = "update", !.category = category, !.id = data_id,
                              !.keys = DOMAIN updated_fields,
                              !.reachable = reachable, !.fault = fault,
                              !.raised = r.raised, !.ok = r.ok, !.msg = r.msg,
                              !.changed = (r.store # db),
                              !.evicted = (r.cleared /\ cache # {}),
                              !.stmts = r.stmts ]
    /\ UNCHANGED next_id
    /\ UNCHANGED score_vars

\* delete: delete_data(category, data_id).
DeleteData(category, data_id) ==
    /\ last.op = "none"
    /\ \E reachable \in ReachableChoices(conn) :
         \E fault \in FaultChoices(conn, reachable, WriteFaults) :
           LET r == delete_data(conn, db, category, data_id, reachable, fault)
           IN  /\ conn' = r.conn
               /\ db' = r.store
               /\ cache' = IF r.cleared THEN {} ELSE cache
               /\ last' = [ NoCall EXCEPT
                              !.op = "delete", !.category = category, !.id = data_id,
                              !.reachable = reachable, !.fault = fault,
                              !.raised = r.raised, !.ok = r.ok, !.msg = r.msg,
                              !.changed = (r.store # db),
                              !.evicted = (r.cleared /\ cache # {}),
                              !.stmts = r.stmts ]
    /\ UNCHANGED next_id
    /\ UNCHANGED score_vars

\* The analyse button of the manage tab, shown in a run whose tone listing
\* is not empty: trigger_tone_analyze, and st.cache_data.clear() on success.
TriggerAnalysis(trainer_id) ==
    /\ last.op = "list" /\ last.category = "tone"
    /\ last.trainer_id = trainer_id
    /\ last.rows # << >>
    /\ \E http \in HttpOutcomes :
         LET r == trigger_tone_analyze(http)
         IN  /\ cache' = IF r.ok THEN {} ELSE cache
             /\ last' = [ NoCall EXCEPT
                            !.op = "analyze", !.trainer_id = trainer_id,
                            !.category = "tone", !.http = http,
                            !.ok = r.ok, !.msg = r.msg, !.posts = r.posts,
                            !.evicted = (r.ok /\ cache # {}) ]
    /\ UNCHANGED <<db, next_id, conn>>
    /\ UNCHANGED score_vars

\* The update button of an edit form of the manage tab, in a run whose
\* listing holds the row: the form's fields, with or without an edit, go
\* through the special handling into update_data.
SubmitUpdate(trainer_id, category) ==
    /\ last.op = "list" /\ last.category = category
    /\ last.trainer_id = trainer_id
    /\ category \in Categories
    /\ \E i \in 1..Len(last.rows), edited \in BOOLEAN :
         LET row  == last.rows[i]
             form == IF edited
                       THEN [ EditForm(category, row.vals)
                                EXCEPT ![EditedField(category)] = Str("b") ]
                       ELSE EditForm(category, row.vals)
             fields == SubmitFields(category, form)
             r == update_data(conn, db, category, row.id, fields, TRUE, "none")
         IN  /\ conn' = r.conn
             /\ db' = r.store
             /\ cache' = IF r.cleared THEN {} ELSE cache
             /\ last' = [ NoCall EXCEPT
                            !.op = "edit", !.trainer_id = trainer_id,
                            !.category = category, !.id = row.id,
                            !.data_dict = form, !.keys = DOMAIN fields,
                            !.raised = r.raised, !.ok = r.ok, !.msg = r.msg,
                            !.changed = (r.store # db),
                            !.evicted = (r.cleared /\ cache # {}),
                            !.stmts = r.stmts ]
    /\ UNCHANGED next_id
    /\ UNCHANGED score_vars

\* The script run ends: what the call returned is gone.
Return ==
    /\ last.op # "none"
    /\ last' = NoCall
    /\ UNCHANGED <<db, next_id, conn, cache>>
    /\ UNCHANGED score_vars

\* The sidebar's refresh button: st.cache_data.clear().
RefreshButton ==
    /\ last.op = "none"
    /\ cache # {}
    /\ cache' = {}
    /\ UNCHANGED <<db, next_id, conn, last>>
    /\ UNCHANGED score_vars

\* Time passes: every cached result ages; one as old as the TTL is gone.
Tick ==
    /\ last.op = "none"
    /\ cache # {}
    /\ cache' = { [ e EXCEPT !.age = @ + TickSeconds ]
                  : e \in { x \in cache : x.age + TickSeconds < CACHE_TTL } }
    /\ UNCHANGED <<db, next_id, conn, last>>
    /\ UNCHANGED score_vars

\* The server or the network drops the cached connection.
ConnectionLost ==
    /\ last.op = "none"
    /\ conn \in {"idle", "aborted"}
    /\ conn' = "closed"
    /\ UNCHANGED <<db, next_id, cache, last>>
    /\ UNCHANGED score_vars

\* The calls that do not read the listing cache, over the categories cats.
StoreStep(cats) ==
    \/ \E t \in Trainers : GetCurrentData(t)
    \/ \E t \in Trainers, c \in cats \ Categories : AddData(t, c, << >>)
    \/ \E t \in Trainers, c \in cats \cap Categories :
          \E d \in FormDicts(c) : SaveHandler(t, c, d)
    \/ \E c \in cats, i \in RowIds :
          \E f \in (IF c \in Categories THEN UpdateInputs(c)
                                        ELSE { ("content" :> Str("b")) }) :
              UpdateData(c, i, f)
    \/ \E c \in cats, i \in RowIds : DeleteData(c, i)
    \/ ConnectionLost
    \/ Return

\* The listing calls and what else touches the listing cache.
CacheStep(cats) ==
    \/ \E t \in Trainers, c \in cats : GetCategoryData(t, c)
    \/ \E t \in Trainers : TriggerAnalysis(t)
    \/ RefreshButton
    \/ Tick

\* The gateway over all categories, listings left out.
Next == StoreStep(CategoryInputs)

Spec == Init /\ [][Next]_vars

\* The gateway with its listing cache, over three categories and the unknown
\* one.
CacheCategories == {"QnA", "feedback", "tone", UnknownCategory}

NextCache == StoreStep(CacheCategories) \/ CacheStep(CacheCategories)

SpecCache == Init /\ [][NextCache]_vars

\* The manage tab on a store without faults, over all categories: rows are
\* saved, listed, and edited through the edit form.
NoFault ==
    /\ last'.reachable /\ last'.fault = "none" /\ last'.count_fault = "none"

NextEdit ==
    \/ \E t \in Trainers, c \in Categories :
          \E d \in FormDicts(c) : SaveHandler(t, c, d) /\ NoFault
    \/ \E t \in Trainers, c \in Categories : GetCategoryData(t, c) /\ NoFault
    \/ \E t \in Trainers, c \in Categories : SubmitUpdate(t, c)
    \/ Return

SpecEdit == Init /\ [][NextEdit]_vars

\* The scoring engine alone: the store stays as constructed.
InitScore == ScoreInputs /\ InitStore

NextScore == Render

SpecScore == InitScore /\ [][NextScore]_vars

\* ========================================================================
\* Claims about the scoring engine (checked under SpecScore)
\* ========================================================================

\* C1: for every count map, calculate_score returns 0 <= totalScore <= 100.
C1_ScoreWithinRange ==
    pc = "scored" => (0 <= total_score /\ total_score <= 100 * ScoreUnit)

\* C1 witness: a scored map with a count above its target (the clamp acts)
\* whose total is the maximum, 100.
C1_Witness ==
    /\ pc = "scored"
    /\ \E c \in Categories : current_data[c] > target[c]
    /\ total_score = 100 * ScoreUnit

\* C2: if every count is at least its target, totalScore = 100 and the tier
\* is Gold; in particular for counts equal to the targets.
C2_AllTargetsMetIsGold ==
    (pc = "scored" /\ \A c \in Categories : current_data[c] >= target[c])
        => (total_score = 100 * ScoreUnit /\ tier = "Gold")

\* C2 witness: the scored map whose counts equal the targets
\* (60, 30, 20, 15, 12, 10, 15, 20, 8).
C2_Witness ==
    /\ pc = "scored"
    /\ current_data = [ QnA |-> 60, guideline_workout |-> 30,
                        guideline_diet |-> 20, philosophy |-> 15,
                        injury |-> 12, feedback |-> 10, meal_ex |-> 15,
                        workout_ex |-> 20, tone |-> 8 ]
    /\ tier = "Gold"

\* C3: the tier follows from totalScore by inclusive lower bounds, highest
\* first: >= 85 Gold, else >= 75 Silver, else >= 60 Bronze, else Unrated.
C3_TierThresholds ==
    pc = "scored" =>
        /\ (total_score >= 85 * ScoreUnit) => tier = "Gold"
        /\ (total_score >= 75 * ScoreUnit /\ total_score < 85 * ScoreUnit)
              => tier = "Silver"
        /\ (total_score >= 60 * ScoreUnit /\ total_score < 75 * ScoreUnit)
              => tier = "Bronze"
        /\ (total_score < 60 * ScoreUnit) => tier = "Unrated"

\* C3 witness: a scored map whose total is exactly 60 and is rated Bronze.
C3_Witness ==
    pc = "scored" /\ total_score = 60 * ScoreUnit /\ tier = "Bronze"

\* The claim's formula, written out with the claim's own targets and
\* weights: sum over the 9 categories of min(count / target * 100, 100) * weight.
C4_Sum(d) ==
      Min((d["QnA"] * 100 * ScoreUnit) \div 60, 100 * ScoreUnit) * 23
    + Min((d["guideline_workout"] * 100 * ScoreUnit) \div 30, 100 * ScoreUnit) * 18
    + Min((d["guideline_diet"] * 100 * ScoreUnit) \div 20, 100 * ScoreUnit) * 13
    + Min((d["philosophy"] * 100 * ScoreUnit) \div 15, 100 * ScoreUnit) * 9
    + Min((d["injury"] * 100 * ScoreUnit) \div 12, 100 * ScoreUnit) * 9
    + Min((d["feedback"] * 100 * ScoreUnit) \div 10, 100 * ScoreUnit) * 4
    + Min((d["meal_ex"] * 100 * ScoreUnit) \div 15, 100 * ScoreUnit) * 4
    + Min((d["workout_ex"] * 100 * ScoreUnit) \div 20, 100 * ScoreUnit) * 10
    + Min((d["tone"] * 100 * ScoreUnit) \div 8, 100 * ScoreUnit) * 10

C4_OnlyQnA30 ==
    [ c \in Categories |-> IF c = "QnA" THEN 30 ELSE 0 ]

\* C4: totalScore is the sum over the categories of
\* min(count / target * 100, 100) * weight; all counts zero give 0 and
\* Unrated; only QnA = 30 gives achievement 50%, category score 11.5, total
\* 11.5 and Unrated.
C4_ScoreIsWeightedSum ==
    pc = "scored" =>
        /\ total_score * WeightUnit = C4_Sum(current_data)
        /\ (\A c \in Categories : current_data[c] = 0)
              => (total_score = 0 /\ tier = "Unrated")
        /\ (current_data = C4_OnlyQnA30)
              => /\ details["QnA"].achievement = 50 * AchievementUnit
                 /\ 10 * details["QnA"].score = 115 * ScoreUnit
                 /\ 10 * total_score = 115 * ScoreUnit
                 /\ tier = "Unrated"

\* C4 witness: the scored map with QnA = 30 and every other count 0.
C4_Witness ==
    pc = "scored" /\ current_data = C4_OnlyQnA30 /\ total_score > 0

\* The claim's priority, ((target - count) / target) * weight, in 1/ScoreUnit.
C5_Priority(c) ==
    ((target[c] - current_data[c]) * AchievementUnit * weights[c]) \div target[c]

RowOf(store, category, data_id) ==
    { r \in store[tables[category]] : r.id = data_id }

\* A call that starts on a store that is reachable and answers every
\* statement, over a connection no earlier failure has left aborted.
HealthyCall ==
    /\ conn \in {"none", "idle"}
    /\ last'.reachable
    /\ last'.fault = "none"
    /\ last'.count_fault = "none"

\* C6: after a successful insert for (trainer, category) no listing cached for
\* that key is left without the new row, so the very next listing of the key
\* includes it, even when a listing of the key was cached less than CACHE_TTL
\* before the insert.
C6_InsertInvalidatesCache ==
    [][ (last.op = "none" /\ last'.op = "insert" /\ last'.ok /\ last'.changed)
        => \A e \in Cached(cache', last'.trainer_id, last'.category) :
              \E i \in 1..Len(e.rows) : e.rows[i].id = last'.id ]_vars

\* C7: for each of the 9 categories, a save whose required fields are all
\* present and non-empty, on a healthy store, reports success and commits
\* exactly one new row of the trainer, with a value for every column of the
\* INSERT, in the category's table; the counts read afterwards are the true
\* ones, 1 higher for the category and unchanged for every other.
C7_InsertOf(category) ==
    (/\ last.op = "none" /\ last'.op = "insert"
     /\ last'.category = category
     /\ last'.msg # "missing_fields"
     /\ HealthyCall)
    => /\ last'.ok /\ ~last'.raised
       /\ \E r \in db'[tables[category]] :
            /\ r.id = last'.id
            /\ r.vals["trainer_id"] = Str(last'.trainer_id)
            /\ DOMAIN r.vals = TableColumns(category)
            /\ db' = [ db EXCEPT ![tables[category]] = @ \cup {r} ]
            /\ r \notin db[tables[category]]
       /\ DOMAIN last'.data = Categories
       /\ \A c \in Categories :
            last'.data[c] = CountRows(db, c, last'.trainer_id)
                              + (IF c = category THEN 1 ELSE 0)

C7_InsertPerCategory ==
    [][ \A category \in Categories : C7_InsertOf(category) ]_vars

\* The same for the categories other than meal_ex.
C7_InsertExceptMealEx ==
    [][ \A category \in Categories \ {"meal_ex"} : C7_InsertOf(category) ]_vars

C7_InsertExceptMealExWitness ==
    /\ last.op = "insert" /\ last.ok /\ last.changed
    /\ last.category = "injury"
    /\ last.data # << >>

\* C8: after delete(category, id) of a stored row reports success the row is
\* gone from its table for good, no cached listing is left (so the next
\* listing of the owner and category is read from the store and does not
\* hold the row), the owner's count of the category is 1 lower, and every
\* other row and count is unchanged.
C8_DeleteRemovesRow ==
    [][ (/\ last.op = "none" /\ last'.op = "delete" /\ last'.ok
         /\ last'.category \in Categories
         /\ RowOf(db, last'.category, last'.id) # {})
        => LET category == last'.category
               row == CHOOSE r \in RowOf(db, category, last'.id) : TRUE
           IN  /\ db' = [ db EXCEPT ![tables[category]] = @ \ {row} ]
               /\ RowOf(db', category, last'.id) = {}
               /\ last'.id < next_id'[tables[category]]
               /\ cache' = {}
               /\ \A t \in Trainers :
                    LET listing == SelectRows(db', category, t)
                    IN  \A i \in 1..Len(listing) : listing[i].id # last'.id
               /\ \A t \in Trainers, c \in Categories :
                    CountRows(db', c, t)
                      = CountRows(db, c, t)
                          - (IF c = category /\ row.vals["trainer_id"] = Str(t)
                               THEN 1 ELSE 0) ]_vars

\* A row was deleted from a table that still holds another row, and listings
\* cached before the delete were discarded.
C8_Witness ==
    /\ last.op = "delete" /\ last.ok /\ last.changed /\ last.evicted
    /\ db[tables[last.category]] # {}
    /\ cache = {}

\* C9: a successful update(category, id, updated_fields) changes only the
\* columns named in updated_fields of the row with that id: every other
\* column of the row, and every other row of every table, is as before.
C9_UpdateFrame ==
    [][ (/\ last.op = "none" /\ last'.op = "update" /\ last'.ok)
        => LET table == tables[last'.category]
           IN  /\ \A t \in TableNames \ {table} : db'[t] = db[t]
               /\ { r \in db'[table] : r.id # last'.id }
                    = { r \in db[table] : r.id # last'.id }
               /\ { r.id : r \in db'[table] } = { r.id : r \in db[table] }
               /\ Cardinality(db'[table]) = Cardinality(db[table])
               /\ \A r \in RowOf(db, last'.category, last'.id) :
                    \A q \in RowOf(db', last'.category, last'.id) :
                       /\ DOMAIN q.vals = DOMAIN r.vals
                       /\ \A col \in DOMAIN r.vals \ last'.keys :
                             q.vals[col] = r.vals[col] ]_vars

\* Two columns of one of two feedback rows were updated.
C9_Witness ==
    /\ last.op = "update" /\ last.ok /\ last.changed
    /\ last.category = "feedback"
    /\ Cardinality(last.keys) = 2
    /\ Cardinality(db[tables["feedback"]]) = 2

\* C10: when the count query of one category fails, the call returns a map
\* of all 9 categories in which that category is 0 and every other category
\* has its true count.
C10_CountFailureIsolated ==
    (last.op = "count" /\ ~last.raised /\ last.fail_at # "")
    => /\ DOMAIN last.data = Categories
       /\ last.data[last.fail_at] = 0
       /\ \A c \in Categories \ {last.fail_at} :
             last.data[c] = CountRows(db, c, last.trainer_id)

\* What the code does instead: the categories before the failing query have
\* their true counts, the failing one and every one after it 0.
C10_CountsAfterFailureAreZero ==
    (last.op = "count" /\ ~last.raised /\ last.fail_at # "")
    => /\ DOMAIN last.data = Categories
       /\ \A c \in Categories :
             last.data[c] = IF IndexOf(c) < IndexOf(last.fail_at)
                               THEN CountRows(db, c, last.trainer_id)
                               ELSE 0

C10_CountsAfterFailureAreZeroWitness ==
    /\ last.op = "count" /\ ~last.raised /\ last.fail_at = "injury"
    /\ CountRows(db, "QnA", last.trainer_id) = 1
    /\ CountRows(db, "feedback", last.trainer_id) = 1


\* C11: every store operation (insert, update, delete, list) called with a
\* category outside the fixed set reports failure (list: an empty result)
\* and issues no statement and no commit on the store connection.
C11_UnknownCategoryRejected ==
    (/\ last.op \in {"insert", "update", "delete", "list"}
     /\ last.category = UnknownCategory
     /\ ~last.cached)
    => /\ last.op = "list" => last.rows = << >>
       /\ last.op # "list" => ~last.ok
       /\ last.stmts = << >>
       /\ ~last.changed

\* What the code does with an unknown category on a connection that answers:
\* the health check SELECT 1 is issued first; delete and update then report
\* failure, list returns nothing, and insert commits and reports success.
C11_UnknownCategoryInCode ==
    (/\ last.op \in {"insert", "update", "delete", "list"}
     /\ last.category = UnknownCategory
     /\ ~last.cached /\ ~last.raised
     /\ last.fault = "none"
     /\ last.op = "list" => last.ok)
    => /\ last.rows = << >>
       /\ ~last.changed
       /\ last.ok = (last.op \in {"insert", "list"})
       /\ last.stmts = IF last.op = "insert" THEN << "SELECT 1", "COMMIT" >>
                                              ELSE << "SELECT 1" >>


\* C12: a save in which a required field of the chosen category is missing
\* or empty is rejected with a message naming the empty fields, before any
\* storage access: no statement is issued, no row is written and the
\* connection is not touched.
C12_MissingFieldsRejected ==
    [][ (/\ last.op = "none" /\ last'.op = "insert"
         /\ last'.category \in Categories
         /\ \E field \in required_fields[last'.category] :
               ~Truthy(Get(last'.data_dict, field, Str(""))))
        => /\ ~last'.ok /\ ~last'.raised
           /\ last'.msg = "missing_fields"
           /\ last'.keys = { field \in required_fields[last'.category] :
                               ~Truthy(Get(last'.data_dict, field, Str(""))) }
           /\ last'.stmts = << >>
           /\ db' = db /\ next_id' = next_id /\ conn' = conn ]_vars

\* A feedback save with an empty title and an empty content was rejected.
C12_Witness ==
    /\ last.op = "insert" /\ last.category = "feedback"
    /\ last.msg = "missing_fields"
    /\ last.keys = {"title", "content"}
    /\ last.stmts = << >>


\* C13: for insert, update and delete, any storage fault (the store
\* unreachable at the health check or reconnect, a rejected statement, the
\* connection lost during the statement or at commit) is caught inside the
\* operation: it returns failure instead of raising, and the store holds
\* what it held before the call.
C13_FaultsCaught ==
    (/\ last.op \in {"insert", "update", "delete"}
     /\ last.category \in Categories
     /\ (last.fault # "none" \/ ~last.reachable))
    => /\ ~last.raised
       /\ ~last.ok
       /\ ~last.changed

\* What the code does: a statement the store rejects is rolled back and
\* reported as failure; when the store is unreachable, or the connection is
\* lost during the statement or the commit, the exception leaves the
\* operation, and a commit applied while the connection is lost stays.
C13_FaultsInCode ==
    (/\ last.op \in {"insert", "update", "delete"}
     /\ last.category \in Categories
     /\ (last.fault # "none" \/ ~last.reachable))
    => /\ ~last.ok
       /\ (last.fault = "sql_error") => (~last.raised /\ ~last.changed)
       /\ (~last.reachable \/ last.fault = "conn_lost") =>
             (last.raised /\ ~last.changed)
       /\ last.changed => (last.raised /\ last.fault = "commit_late")


\* C14: when a tone row is inserted the request to the analysis backend is
\* sent only after the row is committed; whatever the request's outcome the
\* insert reports success, with a warning message of its own when the
\* request timed out or the status was not the success status, the row is in
\* the store and a count read afterwards without a fault sees it.  No step other than a
\* delete takes a row out of the store.
C14_ToneInsertSurvivesAnalysis ==
    [][ /\ (/\ last.op = "none" /\ last'.op = "insert"
            /\ last'.category = "tone" /\ last'.posts > 0)
           => /\ last'.posts = 1
              /\ RowOf(db, "tone", last'.id) = {}
              /\ RowOf(db', "tone", last'.id) # {}
              /\ last'.ok
              /\ (last'.http = "200") = (last'.msg = "added_and_analyzed")
              /\ last'.http \in {"204", "500"} => last'.msg = "saved_analysis_failed"
              /\ last'.http = "timeout" => last'.msg = "saved_analysis_call_failed"
              /\ (last'.data # << >> /\ last'.count_fault = "none") =>
                    last'.data["tone"] = CountRows(db', "tone", last'.trainer_id)
        /\ (/\ last.op = "none" /\ last'.op = "insert"
            /\ last'.category = "tone" /\ ~last'.changed)
           => last'.posts = 0
        /\ (\E t \in TableNames : ~(db[t] \subseteq db'[t]))
           => last'.op \in {"delete", "update"}
        /\ (\E t \in TableNames :
               ~({ r.id : r \in db[t] } \subseteq { r.id : r \in db'[t] }))
           => last'.op = "delete" ]_vars

\* A tone row was saved, the request to the backend timed out, and the count
\* read afterwards sees the row.
C14_Witness ==
    /\ last.op = "insert" /\ last.category = "tone"
    /\ last.http = "timeout" /\ last.posts = 1
    /\ last.ok /\ last.changed
    /\ last.data # << >>
    /\ last.data["tone"] = 1


\* The success statuses of HTTP among the answers of the backend.
Http2xx == {"200", "204"}

\* C15: a tone-analysis trigger, the manual one and the one after a tone
\* insert, sends exactly one request and reports the analysis as succeeded
\* for any 2xx status, as failed for the other statuses and for a request
\* that fails.
C15_AnalysisSucceedsOn2xx ==
    /\ (last.op = "analyze")
       => (last.posts = 1 /\ (last.ok = (last.http \in Http2xx)))
    /\ (last.op = "insert" /\ last.category = "tone" /\ last.posts > 0)
       => /\ last.posts = 1
          /\ (last.msg = "added_and_analyzed") = (last.http \in Http2xx)

\* What the code does: exactly one request, and success for status 200 only.
C15_AnalysisSucceedsOn200 ==
    /\ (last.op = "analyze")
       => (last.posts = 1 /\ (last.ok = (last.http = "200")))
    /\ (last.op = "insert" /\ last.category = "tone" /\ last.posts > 0)
       => /\ last.posts = 1
          /\ (last.msg = "added_and_analyzed") = (last.http = "200")


\* C16: for a row created through insert, loading it into the edit form and
\* submitting the update with no field changed is accepted by the store and
\* leaves every stored column of every row as it was; what is sent names
\* columns of the table only (feedback_type, meal_type and workout_type go
\* to category as a singleton list, body_part is a singleton list, feedback
\* keywords are split on commas, stripped, the empty ones dropped).
C16_EditRoundTrip ==
    [][ (/\ last'.op = "edit"
         /\ \E r \in RowOf(db, last'.category, last'.id) :
               last'.data_dict
                 = EditForm(last'.category,
                            [ col \in columns[last'.category] |-> r.vals[col] ]))
        => /\ last'.ok /\ ~last'.raised
           /\ last'.keys \subseteq TableColumns(last'.category)
           /\ db' = db ]_vars

\* The edit form of a feedback row saved in this run was submitted unchanged.
C16_Witness ==
    /\ last.op = "edit" /\ last.ok /\ ~last.changed
    /\ last.category = "feedback" /\ last.id = 2
    /\ last.keys = {"user_goal", "title", "content", "category", "keywords"}
    /\ RowOf(db, "feedback", 2) # {}


\* The store after a step holds exactly one row more, in the table of the
\* category, with the id the call was given.
OneRowAdded ==
    /\ last'.category \in Categories
    /\ \E r \in db'[tables[last'.category]] :
          /\ r.id = last'.id
          /\ r \notin db[tables[last'.category]]
          /\ db' = [ db EXCEPT ![tables[last'.category]] = @ \cup {r} ]

\* C17: whenever insert, update or delete reports success the store has
\* changed accordingly: exactly one row was added, the addressed row was
\* there and was written, or the addressed row was there and is gone.  A
\* call that changes nothing, such as an update or delete of an id that
\* addresses no row, is reported as a failure.  (Over the nine categories.)
C17_NoSilentNoOp ==
    [][ (/\ last.op = "none"
         /\ last'.op \in {"insert", "update", "delete"}
         /\ last'.category \in Categories
         /\ last'.ok)
        => /\ last'.op = "insert" => OneRowAdded
           /\ last'.op = "update" =>
                 RowOf(db, last'.category, last'.id) # {}
           /\ last'.op = "delete" =>
                 /\ RowOf(db, last'.category, last'.id) # {}
                 /\ RowOf(db', last'.category, last'.id) = {} ]_vars

\* What the code does: a reported success on a known category and, for
\* update and delete, an id that addresses a row, did change the store
\* accordingly; on an id that addresses no row update and delete report
\* success as well and change nothing.
C17_SuccessInCode ==
    [][ (/\ last.op = "none"
         /\ last'.op \in {"insert", "update", "delete"}
         /\ last'.category \in Categories
         /\ last'.fault = "none" /\ ~last'.raised)
        => /\ (last'.op = "insert" /\ last'.ok) => OneRowAdded
           /\ (last'.op = "delete")
                 => /\ last'.ok
                    /\ RowOf(db', last'.category, last'.id) = {}
                    /\ last'.changed = (RowOf(db, last'.category, last'.id) # {})
           /\ (last'.op = "update" /\ last'.changed)
                 => (last'.ok /\ RowOf(db, last'.category, last'.id) # {})
           /\ (last'.op = "update" /\ RowOf(db, last'.category, last'.id) = {})
                 => (last'.ok = (last'.msg = "updated") /\ ~last'.changed) ]_vars


\* A store operation runs (not a cached listing, not a save rejected by the
\* validation) on a store that is reachable and answers every statement.
OperationOnHealthyStore ==
    /\ last.op = "none"
    /\ last'.op \in {"count", "list", "insert", "update", "delete"}
    /\ ~last'.cached
    /\ last'.msg # "missing_fields"
    /\ NoFault

\* The result of an operation is the one a live connection gives: it does
\* not raise, the connection is live afterwards, a count returns the true
\* counts, a listing the owner's rows, a delete reports success.
ResultAsOnLiveConnection ==
    /\ ~last'.raised
    /\ conn' = "idle"
    /\ Len(last'.stmts) >= 1 /\ last'.stmts[1] = "SELECT 1"
    /\ last'.op = "count" => last'.data = TrueCounts(db, last'.trainer_id)
    /\ (last'.op = "list" /\ last'.category \in Categories)
          => /\ last'.ok
             /\ last'.rows = SelectRows(db, last'.category, last'.trainer_id)
    /\ (last'.op = "delete" /\ last'.category \in Categories) => last'.ok

\* C18: an operation started while the cached connection is dead and the
\* store is reachable reconnects once and completes with the result it has
\* on a live connection; the same holds when the cached connection was left
\* in a failed transaction by an earlier query error.
C18_ConnectionRecovered ==
    [][ (OperationOnHealthyStore /\ conn \in {"closed", "aborted"})
        => ResultAsOnLiveConnection ]_vars

\* What the code does: a dead connection is replaced and the operation
\* completes; on a connection left in a failed transaction the health check
\* raises an error the except clause does not name, so count, insert,
\* update and delete raise and a listing comes back empty, and the
\* connection stays as it is.
C18_RecoveryInCode ==
    [][ /\ (OperationOnHealthyStore /\ conn = "closed")
           => ResultAsOnLiveConnection
        /\ (OperationOnHealthyStore /\ conn = "aborted")
           => /\ conn' = "aborted"
              /\ db' = db
              /\ last'.stmts = << "SELECT 1" >>
              /\ ~last'.ok
              /\ last'.raised = (last'.op # "list")
              /\ last'.rows = << >> ]_vars


\* The listings st.cache_data holds for the key of the call just made.
EntriesOfCall(entries) ==
    { e \in entries : e.trainer_id = last'.trainer_id
                      /\ e.category = last'.category }

\* C19: a listing whose query fails returns an empty result without raising
\* and that result is cached under (trainer_id, category) like any other;
\* while the key is cached a listing returns the cached result without a
\* statement on the store, whatever the store holds by then; an entry leaves
\* the cache only when it reaches the TTL or the whole cache is cleared.
C19_FailedListingCached ==
    [][ /\ (/\ last.op = "none" /\ last'.op = "list"
            /\ last'.category \in Categories
            /\ EntriesOfCall(cache) = {}
            /\ (last'.fault # "none" \/ ~last'.reachable \/ conn = "aborted"))
           => /\ ~last'.raised /\ ~last'.ok
              /\ last'.rows = << >>
              /\ EntriesOfCall(cache')
                   = { [ trainer_id |-> last'.trainer_id,
                         category |-> last'.category,
                         age |-> 0, rows |-> << >> ] }
        /\ (/\ last.op = "none" /\ last'.op = "list"
            /\ EntriesOfCall(cache) # {})
           => /\ last'.cached
              /\ \E e \in EntriesOfCall(cache) : last'.rows = e.rows
              /\ last'.stmts = << >>
              /\ cache' = cache /\ conn' = conn /\ db' = db
        /\ \A e \in cache :
              \/ \E f \in cache' : /\ f.trainer_id = e.trainer_id
                                  /\ f.category = e.category
                                  /\ f.rows = e.rows
                                  /\ f.age >= e.age
              \/ cache' = {}
              \/ e.age + TickSeconds >= CACHE_TTL
        /\ \A e \in cache : e.age < CACHE_TTL ]_vars

\* The cached empty listing of tr_002's feedback is returned while the row
\* stored before the run is still in the table.
C19_Witness ==
    /\ last.op = "list" /\ last.cached
    /\ last.trainer_id = "tr_002" /\ last.category = "feedback"
    /\ last.rows = << >>
    /\ RowOf(db, "feedback", 1) # {}
    /\ conn = "idle"


\* ========================================================================
\* Claims about the score under the operations
\* ========================================================================

\* The tiers, lowest first.
TierRank(t) ==
    CASE t = "Gold" -> 3 [] t = "Silver" -> 2 [] t = "Bronze" -> 1 [] OTHER -> 0

\* How much a count is raised when two count maps are compared.
MaxRaise == 2

\* C20: the score is monotone in the counts: raising a count (and so, step
\* by step, any pointwise greater count map) gives a total score that is not
\* lower and a tier that is not lower.
C20_ScoreMonotone ==
    pc = "scored" =>
        /\ \A c \in Categories, by \in 1..MaxRaise :
              LET larger == [ current_data EXCEPT ![c] = @ + by ]
              IN  /\ TotalScore(larger) >= total_score
                  /\ TierRank(Tier(TotalScore(larger))) >= TierRank(tier)
        /\ LET larger == [ c \in Categories |-> current_data[c] + 1 ]
           IN  /\ TotalScore(larger) >= total_score
               /\ TierRank(Tier(TotalScore(larger))) >= TierRank(tier)

\* One more row of a category lifts the tier, one more row of a category
\* already above its target changes nothing.
C20_Witness ==
    /\ pc = "scored"
    /\ \E c \in Categories :
          TierRank(Tier(TotalScore([ current_data EXCEPT ![c] = @ + 1 ])))
             > TierRank(tier)
    /\ \E c \in Categories :
          /\ current_data[c] > target[c]
          /\ TotalScore([ current_data EXCEPT ![c] = @ + 1 ]) = total_score

\* Over the operations: a successful insert lowers no trainer's true counts,
\* score or tier, a successful delete raises none of them.
C20_OperationsMonotone ==
    [][ /\ (last.op = "none" /\ last'.op = "insert" /\ last'.ok)
           => \A t \in Trainers :
                 /\ \A c \in Categories :
                       CountRows(db', c, t) >= CountRows(db, c, t)
                 /\ TotalScore(TrueCounts(db', t)) >= TotalScore(TrueCounts(db, t))
                 /\ TierRank(Tier(TotalScore(TrueCounts(db', t))))
                      >= TierRank(Tier(TotalScore(TrueCounts(db, t))))
        /\ (last.op = "none" /\ last'.op = "delete" /\ last'.ok)
           => \A t \in Trainers :
                 /\ \A c \in Categories :
                       CountRows(db', c, t) <= CountRows(db, c, t)
                 /\ TotalScore(TrueCounts(db', t)) <= TotalScore(TrueCounts(db, t))
                 /\ TierRank(Tier(TotalScore(TrueCounts(db', t))))
                      <= TierRank(Tier(TotalScore(TrueCounts(db, t)))) ]_vars

C20_OperationsMonotoneWitness ==
    /\ last.op = "insert" /\ last.ok /\ last.changed
    /\ TotalScore(TrueCounts(db, last.trainer_id)) > 0

====
